---- MODULE Spec2Model ----
(***************************************************************************)
(* AutoFlow (.autoflow/agents/orchestrator.py and the migration scripts).  *)
(*                                                                         *)
(* Specifications over one set of variables:                               *)
(*   Spec     - concurrent runs of AutoFlowOrchestrator.run_workflow, one  *)
(*              per task, sharing one git repository (WorktreeManager);    *)
(*   SpecLive - Spec with every process scheduled fairly;                  *)
(*   SpecChk  - HumanCheckpoint.request_approval reading a scripted        *)
(*              sequence of human responses;                               *)
(*   SpecSum  - ContextFirewall.save_full_output followed by               *)
(*              ContextFirewall.create_summary on bounded contents;        *)
(*   SpecFlow - what each phase's agent receives from the phases before;   *)
(*   SpecArc  - the firewall directory shared by concurrent runs;          *)
(*   SpecWt   - WorktreeManager's methods called directly;                 *)
(*   SpecMig  - auto-migrate.py and create-issues-from-migrations.py.      *)
(* Text is modelled as sequences of one-character strings.                 *)
(***************************************************************************)
EXTENDS Integers, Sequences, FiniteSets, TLC

VARIABLES
    \* ---- run_workflow, per task ----
    pc,          \* position of each task in run_workflow
    desc,        \* task_description of each run
    trace,       \* per task: the calls made so far, in order, as <<kind, phase>>
    decision,    \* per task, per phase: outcome of the phase's checkpoint
    issue,       \* per task, per phase: the phase's tracking issue
    createRes,   \* per task: outcome of create_worktree
    implResult,  \* per task: the dict _phase_3_implement returned
    wsState,     \* per task: state of the workspace the task was granted
    mergeRes,    \* per task: outcome of its `git merge --no-ff`
    mergeRet,    \* per task: value merge_worktree returned
    \* ---- the shared git repository ----
    dirs,        \* branch names that have a directory under worktrees/
    branches,    \* git branches that exist
    merged,      \* branches merged into main
    \* ---- request_approval ----
    chkPc, chkScript, chkAsked, chkLast, chkResult,
    \* ---- context firewall ----
    sumPc, sumContent, sumBudget, sumPath, sumResult,
    sumFiles,    \* files under the firewall directory, as <<path, content>>
    sumDoc,      \* the dict Agent.execute returns
    \* ---- what flows from phase to phase in run_workflow ----
    flowPc,      \* per run: the phase and whether its agent or checkpoint is next
    flowDesc,    \* per run: task_description
    flowArt,     \* per run, per phase: the full document and its summary
    flowIn,      \* per run, per phase: the arguments the agent was called with
    \* ---- the firewall directory shared by concurrent runs ----
    arcPc,       \* per run: the phase and whether its agent or checkpoint is next
    arcDesc,     \* per run: task_description
    arcNow,      \* the wall clock, in seconds
    arcFiles,    \* the files of firewall_dir: pairs <<path, content>>
    arcLog,      \* per run, per phase: what save_full_output was asked to write
    \* ---- WorktreeManager called directly ----
    wtPc,        \* per caller: its position inside create_worktree / merge_worktree
    wtOp,        \* per caller: the method and branch_name of its latest call
    wtRet,       \* per caller: what its latest call returned
    wtGit,       \* number of git commands run so far
    wtCalls,     \* number of calls made so far
    \* ---- the migration scripts ----
    migPc,       \* the script that is running, or idle
    migAuth,     \* gh_authenticated of the running auto-migrate
    migTodo,     \* projects / record files the running loop has still to visit
    migFiles,    \* migrations/archon-<id>.json: the JSON text of each record
    migIssues,   \* the issues created on GitHub so far, by project
    migAttempts, \* number of `gh issue create` invocations so far
    migRuns,     \* number of script runs started so far
    migRun,      \* the running script's tally: created, failed, skipped
    migPrev      \* the tally of the latest finished run

wfVars  == <<pc, desc, trace, decision, issue, createRes, implResult, wsState,
             mergeRes, mergeRet, dirs, branches, merged>>
chkVars == <<chkPc, chkScript, chkAsked, chkLast, chkResult>>
sumVars == <<sumPc, sumContent, sumBudget, sumPath, sumResult, sumFiles, sumDoc>>
flowVars == <<flowPc, flowDesc, flowArt, flowIn>>
arcVars == <<arcPc, arcDesc, arcNow, arcFiles, arcLog>>
wtVars  == <<wtPc, wtOp, wtRet, wtGit, wtCalls>>
migVars == <<migPc, migAuth, migTodo, migFiles, migIssues, migAttempts, migRuns,
             migRun, migPrev>>
vars    == <<wfVars, chkVars, sumVars, flowVars, arcVars, wtVars, migVars>>

(***************************************************************************)
(* Bounds                                                                  *)
(***************************************************************************)
NumTasks == 2
Tasks == 1..NumTasks

(***************************************************************************)
(* Text helpers (Python str methods used by the code)                      *)
(***************************************************************************)
LowerChar(c) ==
    CASE c = "A" -> "a" [] c = "B" -> "b" [] c = "D" -> "d" [] c = "E" -> "e"
      [] c = "F" -> "f" [] c = "I" -> "i" [] c = "M" -> "m" [] c = "N" -> "n"
      [] c = "O" -> "o" [] c = "S" -> "s" [] c = "Y" -> "y"
      [] OTHER -> c

\* str.lower()
Lower(s) == [i \in 1..Len(s) |-> LowerChar(s[i])]

\* str.replace(' ', '-')
ReplaceSpace(s) == [i \in 1..Len(s) |-> IF s[i] = " " THEN "-" ELSE s[i]]

HasChar(s, c) == \E i \in 1..Len(s) : s[i] = c

(***************************************************************************)
(* Task descriptions given to run_workflow.  The first two differ but      *)
(* derive the same branch name.                                            *)
(***************************************************************************)
DescList == << <<"A", " ", "b">>, <<"a", "-", "b">>, <<"f">>, <<"a", "/", "b">> >>

Descs == { DescList[i] : i \in 1..Len(DescList) }

\* Tasks are interchangeable: the runs are numbered in the order of their
\* descriptions in DescList
DescChoices ==
    { [t \in Tasks |-> DescList[f[t]]] :
        f \in { g \in [Tasks -> 1..Len(DescList)] :
                  \A t \in Tasks, u \in Tasks : t < u => g[t] <= g[u] } }

ImplementPrefix == <<"i", "m", "p", "l", "e", "m", "e", "n", "t", "-">>

\* branch_name = f"implement-{task_description.lower().replace(' ', '-')}"
BranchName(d) == ImplementPrefix \o ReplaceSpace(Lower(d))

\* The branch name of every description a run may be given
BranchNames == [d \in Descs \cup {<< >>} |-> BranchName(d)]

Branch(t) == BranchNames[desc[t]]

Phases == 1..5


(***************************************************************************)
(* HumanCheckpoint                                                         *)
(***************************************************************************)
\* What the human may type at the prompt
Responses ==
    { <<"y", "e", "s">>, <<"y">>, <<"Y">>,
      <<"n", "o">>, <<"n">>, <<"N", "o">>,
      <<"m", "o", "d", "i", "f", "y">>, <<"m">>, <<"M">>,
      <<>>, <<"o", "k">> }

\* What the human types at the checkpoints of run_workflow: one response of
\* each kind
Answers == { <<"y", "e", "s">>, <<"N", "o">>, <<"M">>, <<"o", "k">> }

\* Mutant of Classify: a response that is not recognized counts as yes
ClassifyDefaultsToYes(r) ==
    LET l == Lower(r) IN
    IF l \in { <<"n", "o">>, <<"n">> } THEN "no"
    ELSE IF l \in { <<"m", "o", "d", "i", "f", "y">>, <<"m">> } THEN "modify"
    ELSE "yes"

\* The branch of the while-loop that input(...).lower() selects
Classify(r) ==
    LET l == Lower(r) IN
    IF l \in { <<"y", "e", "s">>, <<"y">> } THEN "yes"
    ELSE IF l \in { <<"n", "o">>, <<"n">> } THEN "no"
    ELSE IF l \in { <<"m", "o", "d", "i", "f", "y">>, <<"m">> } THEN "modify"
    ELSE "again"

\* Mutant of HandleModify: a modify request counts as approval
HandleModifyApproves == TRUE

\* _handle_modify: prints "not implemented" and returns False
HandleModify == FALSE

\* The value request_approval returns for a recognized response
ApprovalValue(c) ==
    CASE c = "yes"    -> TRUE
      [] c = "no"     -> FALSE
      [] c = "modify" -> HandleModify

(***************************************************************************)
(* Git commands run by WorktreeManager on the shared repository            *)
(***************************************************************************)
\* The existence check finding a worktree for every branch name
WorktreeExistsAlways(b) == TRUE

\* Mutant of WorktreeExists: the existence check never finds the worktree
WorktreeExistsNever(b) == FALSE

\* worktree_path.exists()
WorktreeExists(b) == b \in dirs

\* Mutant of WorktreeAddOk: git refuses while any worktree is checked out
WorktreeAddOnlyAlone(b) == dirs = {} /\ b \notin branches

\* Mutant of WorktreeAddOk: the exit code of git is not looked at
WorktreeAddAlways(b) == TRUE

\* `git worktree add <path> -b <branch>` exits 0: git refuses when the
\* path or the branch already exists
WorktreeAddOk(b) == b \notin dirs /\ b \notin branches

\* `git worktree remove <path>` exits 0: git refuses a dirty worktree
WorktreeRemoveOk(b, clean) == b \in dirs /\ clean

\* `git branch -d <branch>` exits 0: git refuses a branch that is not
\* merged or that is checked out in a worktree
BranchDeleteOk(b, ds, ms) == b \in branches /\ b \in ms /\ b \notin ds

(***************************************************************************)
(* run_workflow                                                            *)
(***************************************************************************)
Ev(k, p) == <<k, p>>

Log(t, evs) == trace' = [trace EXCEPT ![t] = @ \o evs]

\* save_full_output opens firewall_dir/<agent>-<topic>-<ts>.md for writing;
\* a topic holding a path separator names a directory that does not exist
SaveOk(topic) == ~HasChar(topic, "/")

\* <Agent>.execute: build the document, save_full_output, create_summary
ExecEvents(p) == << Ev("exec", p), Ev("save", p), Ev("summary", p) >>

\* Where run_workflow continues after phase p returned
NextPhasePc(p) ==
    CASE p = 1 -> "p2_run" [] p = 2 -> "p3_create" [] p = 3 -> "p4_run"
      [] p = 4 -> "p5_start" [] OTHER -> "done"

\* Where a phase starts
PhaseStartPc(p) ==
    CASE p = 1 -> "p1_run" [] p = 2 -> "p2_run" [] p = 3 -> "p3_create"
      [] p = 4 -> "p4_run" [] OTHER -> "p5_start"

\* Mutant of AfterReject: a rejected phase is run again
AfterRejectRetries(p) == PhaseStartPc(p)

\* Mutant of AfterReject: the sys.exit(1) is missing and the phase returns
AfterRejectFallsThrough(p) == NextPhasePc(p)

\* `if not approved: ... sys.exit(1)` after the checkpoint of phase p
AfterReject(p) == "exit1"

WfInit ==
    /\ pc = [t \in Tasks |-> "main"]
    /\ desc \in DescChoices
    /\ trace = [t \in Tasks |-> << >>]
    /\ decision = [t \in Tasks |-> [p \in Phases |-> "none"]]
    /\ issue = [t \in Tasks |-> [p \in Phases |-> "none"]]
    /\ createRes = [t \in Tasks |-> "pending"]
    /\ implResult = [t \in Tasks |-> "unset"]
    /\ wsState = [t \in Tasks |-> "None"]
    /\ mergeRes = [t \in Tasks |-> "none"]
    /\ mergeRet = [t \in Tasks |-> "none"]
    /\ dirs = {}
    /\ branches = {}
    /\ merged = {}

\* main: without a task-description argument the usage text is printed and
\* the process exits with status 1; otherwise run_workflow is entered
Main(t) ==
    /\ pc[t] = "main"
    /\ \E given \in BOOLEAN :
         IF given
         THEN /\ pc' = [pc EXCEPT ![t] = "p1_run"]
              /\ UNCHANGED trace
         ELSE /\ pc' = [pc EXCEPT ![t] = "exit1"]
              /\ Log(t, << Ev("usage", 0) >>)
    /\ UNCHANGED <<desc, decision, issue, createRes, implResult, wsState, mergeRes,
                   mergeRet, dirs, branches, merged, chkVars, sumVars, flowVars, arcVars,
                   wtVars, migVars>>

\* _phase_1_research / _phase_2_plan up to the checkpoint prompt:
\* create_issue, agent execute, request_approval called
IssuePhaseRun(t, p) ==
    /\ pc[t] = (IF p = 1 THEN "p1_run" ELSE "p2_run")
    /\ \E created \in BOOLEAN :
         /\ issue' = [issue EXCEPT ![t][p] = IF created THEN "open" ELSE "failed"]
         /\ IF SaveOk(desc[t])
            THEN /\ Log(t, << Ev("start", p), Ev("issue_create", p) >>
                           \o ExecEvents(p) \o << Ev("ask", p) >>)
                 /\ pc' = [pc EXCEPT ![t] = IF p = 1 THEN "p1_chk" ELSE "p2_chk"]
            ELSE /\ Log(t, << Ev("start", p), Ev("issue_create", p), Ev("exec", p) >>)
                 /\ pc' = [pc EXCEPT ![t] = "crash"]
    /\ UNCHANGED <<desc, decision, createRes, implResult, wsState, mergeRes,
                   mergeRet, dirs, branches, merged, chkVars, sumVars, flowVars, arcVars,
                   wtVars, migVars>>

\* The human answers the checkpoint of phase 1 or 2; on approval the issue
\* is commented and closed (comment_issue raises on issue_number None)
IssuePhaseCheckpoint(t, p) ==
    /\ pc[t] = (IF p = 1 THEN "p1_chk" ELSE "p2_chk")
    /\ \E r \in Answers :
         LET c == Classify(r) IN
         IF c = "again"
         THEN UNCHANGED vars
         ELSE IF ~ApprovalValue(c)
         THEN /\ decision' = [decision EXCEPT ![t][p] = "reject"]
              /\ Log(t, << Ev("reject", p) >>)
              /\ pc' = [pc EXCEPT ![t] = AfterReject(p)]
              /\ UNCHANGED issue
         ELSE /\ decision' = [decision EXCEPT ![t][p] = "approve"]
              /\ IF issue[t][p] = "open"
                 THEN /\ Log(t, << Ev("approve", p), Ev("issue_comment", p),
                                   Ev("issue_close", p) >>)
                      /\ issue' = [issue EXCEPT ![t][p] = "closed"]
                      /\ pc' = [pc EXCEPT ![t] = NextPhasePc(p)]
                 ELSE /\ Log(t, << Ev("approve", p) >>)
                      /\ pc' = [pc EXCEPT ![t] = "crash"]
                      /\ UNCHANGED issue
    /\ UNCHANGED <<desc, createRes, implResult, wsState, mergeRes, mergeRet,
                   dirs, branches, merged, chkVars, sumVars, flowVars, arcVars,
                   wtVars, migVars>>


\* _phase_3_implement, first half of create_worktree: the existence check.
\* A worktree that exists makes create_worktree return None and the phase
\* return {} to run_workflow, which goes on to _phase_4_validate.
ImplementCreate(t) ==
    /\ pc[t] = "p3_create"
    /\ IF WorktreeExists(Branch(t))
       THEN /\ createRes' = [createRes EXCEPT ![t] = "exists"]
            /\ implResult' = [implResult EXCEPT ![t] = "empty"]
            /\ Log(t, << Ev("start", 3), Ev("create_worktree", 3) >>)
            /\ pc' = [pc EXCEPT ![t] = NextPhasePc(3)]
       ELSE /\ Log(t, << Ev("start", 3), Ev("create_worktree", 3) >>)
            /\ pc' = [pc EXCEPT ![t] = "p3_add"]
            /\ UNCHANGED <<createRes, implResult>>
    /\ UNCHANGED <<desc, decision, issue, wsState, mergeRes, mergeRet,
                   dirs, branches, merged, chkVars, sumVars, flowVars, arcVars,
                   wtVars, migVars>>

\* Second half of create_worktree: `git worktree add`; on exit code 0 the
\* path is returned, the implement agent runs and the checkpoint is asked
ImplementAdd(t) ==
    /\ pc[t] = "p3_add"
    /\ IF WorktreeAddOk(Branch(t))
       THEN /\ dirs' = dirs \cup {Branch(t)}
            /\ branches' = branches \cup {Branch(t)}
            /\ createRes' = [createRes EXCEPT ![t] = "granted"]
            /\ wsState' = [wsState EXCEPT ![t] = "Created"]
            /\ UNCHANGED implResult
            /\ IF SaveOk(desc[t])
               THEN /\ Log(t, << Ev("git_worktree_add", 3) >> \o ExecEvents(3)
                              \o << Ev("ask", 3) >>)
                    /\ pc' = [pc EXCEPT ![t] = "p3_chk"]
               ELSE /\ Log(t, << Ev("git_worktree_add", 3), Ev("exec", 3) >>)
                    /\ pc' = [pc EXCEPT ![t] = "crash"]
       ELSE /\ createRes' = [createRes EXCEPT ![t] = "lost"]
            /\ implResult' = [implResult EXCEPT ![t] = "empty"]
            /\ Log(t, << Ev("git_worktree_add", 3) >>)
            /\ pc' = [pc EXCEPT ![t] = NextPhasePc(3)]
            /\ UNCHANGED <<dirs, branches, wsState>>
    /\ UNCHANGED <<desc, decision, issue, mergeRes, mergeRet, merged,
                   chkVars, sumVars, flowVars, arcVars,
                   wtVars, migVars>>

\* The human answers the Code Review checkpoint
ImplementCheckpoint(t) ==
    /\ pc[t] = "p3_chk"
    /\ \E r \in Answers :
         LET c == Classify(r) IN
         IF c = "again"
         THEN UNCHANGED vars
         ELSE IF ~ApprovalValue(c)
         THEN /\ decision' = [decision EXCEPT ![t][3] = "reject"]
              /\ Log(t, << Ev("reject", 3) >>)
              /\ pc' = [pc EXCEPT ![t] = AfterReject(3)]
              /\ UNCHANGED implResult
         ELSE /\ decision' = [decision EXCEPT ![t][3] = "approve"]
              /\ Log(t, << Ev("approve", 3) >>)
              /\ implResult' = [implResult EXCEPT ![t] = "full"]
              /\ pc' = [pc EXCEPT ![t] = NextPhasePc(3)]
    /\ UNCHANGED <<desc, issue, createRes, wsState, mergeRes, mergeRet,
                   dirs, branches, merged, chkVars, sumVars, flowVars, arcVars,
                   wtVars, migVars>>

\* _phase_4_validate up to the checkpoint prompt; implement_result["worktree"]
\* raises KeyError on the empty dict
ValidateRun(t) ==
    /\ pc[t] = "p4_run"
    /\ IF implResult[t] = "full"
       THEN /\ Log(t, << Ev("start", 4) >> \o ExecEvents(4) \o << Ev("ask", 4) >>)
            /\ pc' = [pc EXCEPT ![t] = "p4_chk"]
       ELSE /\ Log(t, << Ev("start", 4) >>)
            /\ pc' = [pc EXCEPT ![t] = "crash"]
    /\ UNCHANGED <<desc, decision, issue, createRes, implResult, wsState,
                   mergeRes, mergeRet, dirs, branches, merged, chkVars, sumVars, flowVars, arcVars,
                   wtVars, migVars>>

\* The human answers the Validation Review checkpoint
ValidateCheckpoint(t) ==
    /\ pc[t] = "p4_chk"
    /\ \E r \in Answers :
         LET c == Classify(r) IN
         IF c = "again"
         THEN UNCHANGED vars
         ELSE IF ~ApprovalValue(c)
         THEN /\ decision' = [decision EXCEPT ![t][4] = "reject"]
              /\ Log(t, << Ev("reject", 4) >>)
              /\ pc' = [pc EXCEPT ![t] = AfterReject(4)]
         ELSE /\ decision' = [decision EXCEPT ![t][4] = "approve"]
              /\ Log(t, << Ev("approve", 4) >>)
              /\ pc' = [pc EXCEPT ![t] = NextPhasePc(4)]
    /\ UNCHANGED <<desc, issue, createRes, implResult, wsState, mergeRes,
                   mergeRet, dirs, branches, merged, chkVars, sumVars, flowVars, arcVars,
                   wtVars, migVars>>

\* Mutant of NextMergePc: the worktree is removed before the merge
NextMergePcRemoveFirst(step) ==
    CASE step = "checkout" -> "m_remove"
      [] step = "remove"   -> "m_merge"
      [] step = "merge"    -> "m_branchd"

\* The command merge_worktree runs after each of its subprocess.run calls:
\* checkout main, merge --no-ff, worktree remove, branch -d
NextMergePc(step) ==
    CASE step = "checkout" -> "m_merge"
      [] step = "merge"    -> "m_remove"
      [] step = "remove"   -> "m_branchd"

\* _phase_5_integrate: merge_worktree is entered; a missing worktree makes it
\* return False, otherwise `git checkout main` runs
IntegrateStart(t) ==
    /\ pc[t] = "p5_start"
    /\ IF implResult[t] # "full"
       THEN /\ Log(t, << Ev("start", 5) >>)
            /\ pc' = [pc EXCEPT ![t] = NextPhasePc(5)]
            /\ UNCHANGED mergeRet
       ELSE IF ~WorktreeExists(Branch(t))
       THEN /\ Log(t, << Ev("start", 5), Ev("merge_worktree", 5) >>)
            /\ mergeRet' = [mergeRet EXCEPT ![t] = "false"]
            /\ pc' = [pc EXCEPT ![t] = NextPhasePc(5)]
       ELSE /\ Log(t, << Ev("start", 5), Ev("merge_worktree", 5),
                         Ev("git_checkout", 5) >>)
            /\ pc' = [pc EXCEPT ![t] = NextMergePc("checkout")]
            /\ UNCHANGED mergeRet
    /\ UNCHANGED <<desc, decision, issue, createRes, implResult, wsState,
                   mergeRes, dirs, branches, merged, chkVars, sumVars, flowVars, arcVars,
                   wtVars, migVars>>

\* `git merge --no-ff <branch>`: succeeds or stops on a conflict; the exit
\* code is not read
MergeStep(t) ==
    /\ pc[t] = "m_merge"
    /\ \E ok \in BOOLEAN :
         /\ mergeRes' = [mergeRes EXCEPT ![t] = IF ok THEN "ok" ELSE "conflict"]
         /\ merged' = IF ok THEN merged \cup {Branch(t)} ELSE merged
         /\ wsState' = [wsState EXCEPT ![t] = IF ok THEN "Merged" ELSE @]
    /\ Log(t, << Ev("git_merge", 5) >>)
    /\ pc' = [pc EXCEPT ![t] = NextMergePc("merge")]
    /\ UNCHANGED <<desc, decision, issue, createRes, implResult, mergeRet,
                   dirs, branches, chkVars, sumVars, flowVars, arcVars,
                   wtVars, migVars>>

\* `git worktree remove <path>`
RemoveStep(t) ==
    /\ pc[t] = "m_remove"
    /\ \E clean \in BOOLEAN :
         IF WorktreeRemoveOk(Branch(t), clean)
         THEN /\ dirs' = dirs \ {Branch(t)}
              /\ wsState' = [wsState EXCEPT ![t] = "Removed"]
         ELSE UNCHANGED <<dirs, wsState>>
    /\ Log(t, << Ev("git_worktree_remove", 5) >>)
    /\ pc' = [pc EXCEPT ![t] = NextMergePc("remove")]
    /\ UNCHANGED <<desc, decision, issue, createRes, implResult, mergeRes,
                   mergeRet, branches, merged, chkVars, sumVars, flowVars, arcVars,
                   wtVars, migVars>>

\* `git branch -d <branch>`, then merge_worktree returns True and
\* run_workflow prints "Workflow complete"
BranchDeleteStep(t) ==
    /\ pc[t] = "m_branchd"
    /\ Log(t, << Ev("git_branch_d", 5) >>)
    /\ branches' = IF BranchDeleteOk(Branch(t), dirs, merged)
                   THEN branches \ {Branch(t)} ELSE branches
    /\ mergeRet' = [mergeRet EXCEPT ![t] = "true"]
    /\ pc' = [pc EXCEPT ![t] = NextPhasePc(5)]
    /\ UNCHANGED <<desc, decision, issue, createRes, implResult, wsState,
                   mergeRes, dirs, merged, chkVars, sumVars, flowVars, arcVars,
                   wtVars, migVars>>

\* One step of the process that runs task t
TaskStep(t) ==
    \/ Main(t)
    \/ \E p \in {1, 2} : IssuePhaseRun(t, p)
    \/ \E p \in {1, 2} : IssuePhaseCheckpoint(t, p)
    \/ ImplementCreate(t)
    \/ ImplementAdd(t)
    \/ ImplementCheckpoint(t)
    \/ ValidateRun(t)
    \/ ValidateCheckpoint(t)
    \/ IntegrateStart(t)
    \/ MergeStep(t)
    \/ RemoveStep(t)
    \/ BranchDeleteStep(t)

WfNext == \E t \in Tasks : TaskStep(t)


(***************************************************************************)
(* HumanCheckpoint.request_approval as a loop over the human's responses   *)
(***************************************************************************)
MaxScript == 2

RECURSIVE SeqsUpTo(_, _)
\* All sequences over S of length at most n
SeqsUpTo(S, n) ==
    IF n = 0 THEN { << >> }
    ELSE LET shorter == SeqsUpTo(S, n - 1) IN
         shorter \cup { Append(q, x) : q \in shorter, x \in S }

ChkInit ==
    /\ chkPc = "prompt"
    /\ chkScript \in SeqsUpTo(Responses, MaxScript)
    /\ chkAsked = 0
    /\ chkLast = << >>
    /\ chkResult = "none"

\* One turn of `while True`: read a response; return on yes / no / modify,
\* prompt again on anything else
Prompt ==
    /\ chkPc = "prompt"
    /\ chkScript # << >>
    /\ LET r == Head(chkScript)
           c == Classify(r)
       IN  /\ chkLast' = r
           /\ chkScript' = Tail(chkScript)
           /\ chkAsked' = chkAsked + 1
           /\ IF c = "again"
              THEN UNCHANGED <<chkPc, chkResult>>
              ELSE /\ chkResult' = IF ApprovalValue(c) THEN "true" ELSE "false"
                   /\ chkPc' = "returned"
    /\ UNCHANGED <<wfVars, sumVars, flowVars, arcVars,
                   wtVars, migVars>>

ChkNext == Prompt

(***************************************************************************)
(* ContextFirewall                                                         *)
(***************************************************************************)
MaxLen == 3
MaxTokens == 8
MaxKeyPoints == 20
CharsPerToken == 4
DefaultMaxTokens == 2000

Alphabet == { "-", "1", "4", ".", "a", " ", "\n" }

RECURSIVE Repeat(_, _)
Repeat(s, n) == IF n = 0 THEN << >> ELSE s \o Repeat(s, n - 1)

\* Documents of many bullet lines, around the MaxKeyPoints limit
LongContents == { Repeat(<<"-", "a", "\n">>, n) : n \in {19, 20, 21} }

Contents == SeqsUpTo(Alphabet, MaxLen) \cup LongContents

Budgets == (0..MaxTokens) \cup {DefaultMaxTokens}

Timestamps == { <<"0">>, <<"1">> }

Take(s, n) == SubSeq(s, 1, IF n < Len(s) THEN n ELSE Len(s))

RECURSIVE SplitLines(_)
\* str.split('\n')
SplitLines(s) ==
    IF ~HasChar(s, "\n") THEN << s >>
    ELSE LET i == CHOOSE k \in 1..Len(s) :
                    s[k] = "\n" /\ \A j \in 1..(k - 1) : s[j] # "\n"
         IN  << SubSeq(s, 1, i - 1) >> \o SplitLines(SubSeq(s, i + 1, Len(s)))

RECURSIVE JoinLines(_)
\* '\n'.join(...)
JoinLines(ls) ==
    IF ls = << >> THEN << >>
    ELSE IF Len(ls) = 1 THEN ls[1]
    ELSE ls[1] \o <<"\n">> \o JoinLines(Tail(ls))

IsSpace(c) == c \in { " ", "\n", "\t" }

RECURSIVE LStrip(_)
LStrip(s) == IF s # << >> /\ IsSpace(s[1]) THEN LStrip(Tail(s)) ELSE s

RECURSIVE RStrip(_)
RStrip(s) ==
    IF s # << >> /\ IsSpace(s[Len(s)]) THEN RStrip(SubSeq(s, 1, Len(s) - 1)) ELSE s

\* str.strip()
Strip(s) == RStrip(LStrip(s))

\* l.strip().startswith(('-', '*', '1', '2', '3'))
IsKeyPoint(l) ==
    LET st == Strip(l) IN st # << >> /\ st[1] \in { "-", "*", "1", "2", "3" }

DigitChar(d) ==
    CASE d = 0 -> "0" [] d = 1 -> "1" [] d = 2 -> "2" [] d = 3 -> "3"
      [] d = 4 -> "4" [] d = 5 -> "5" [] d = 6 -> "6" [] d = 7 -> "7"
      [] d = 8 -> "8" [] d = 9 -> "9"

RECURSIVE Digits(_)
\* str(n) for n >= 0
Digits(n) ==
    IF n < 10 THEN << DigitChar(n) >>
    ELSE Digits(n \div 10) \o << DigitChar(n % 10) >>

\* f"SUMMARY ({len(key_points)} key points):\n\n"
Header(n) ==
    << "S", "U", "M", "M", "A", "R", "Y", " ", "(" >> \o Digits(n)
    \o << " ", "k", "e", "y", " ", "p", "o", "i", "n", "t", "s", ")", ":",
          "\n", "\n" >>

\* "\n\n[Truncated...]"
TruncationMarker ==
    << "\n", "\n", "[", "T", "r", "u", "n", "c", "a", "t", "e", "d", ".", ".",
       ".", "]" >>

KeyPoints(content) == SelectSeq(SplitLines(content), IsKeyPoint)

\* the header counting key_points[:20] in place of key_points
UntruncatedCountsKept(content) ==
    Header(Len(Take(KeyPoints(content), MaxKeyPoints)))
    \o JoinLines(Take(KeyPoints(content), MaxKeyPoints))

\* summary before the length check: header, then the first 20 key points
Untruncated(content) ==
    Header(Len(KeyPoints(content)))
    \o JoinLines(Take(KeyPoints(content), MaxKeyPoints))

\* Mutant of Truncate: the length check is missing
TruncateNever(summary, maxTokens) == summary

\* the same cut taken already at len(summary) == max_tokens * 4
TruncateAtBudget(summary, maxTokens) ==
    IF Len(summary) >= maxTokens * CharsPerToken
    THEN Take(summary, maxTokens * CharsPerToken) \o TruncationMarker
    ELSE summary

\* if len(summary) > max_tokens * 4: summary[:max_tokens * 4] + marker
Truncate(summary, maxTokens) ==
    IF Len(summary) > maxTokens * CharsPerToken
    THEN Take(summary, maxTokens * CharsPerToken) \o TruncationMarker
    ELSE summary

\* ContextFirewall.create_summary(full_output, max_tokens)
CreateSummary(content, maxTokens) == Truncate(Untruncated(content), maxTokens)

\* str(firewall_dir / f"{agent_name}-{phase}-{timestamp}.md")
ArchivePath(agent, topic, ts) ==
    << "f", "w", "/" >> \o agent \o <<"-">> \o topic \o <<"-">> \o ts
    \o << ".", "m", "d" >>

\* Mutant of WriteFile: nothing reaches the disk
WriteFileDropped(files, path, content) == files

\* with open(filepath, 'w') as f: f.write(content)
WriteFile(files, path, content) ==
    { f \in files : f[1] # path } \cup { <<path, content>> }

\* The "summary" and "full_document" entries of the dict execute returns
AgentResult(summary, filepath) ==
    [summary |-> summary, full_document |-> filepath]

NoResult == [summary |-> << >>, full_document |-> << >>]

EndsWith(s, suffix) ==
    /\ Len(suffix) <= Len(s)
    /\ SubSeq(s, Len(s) - Len(suffix) + 1, Len(s)) = suffix

SumInit ==
    /\ sumPc = "start"
    /\ sumContent \in Contents
    /\ sumBudget \in Budgets
    /\ sumPath = << >>
    /\ sumResult = << >>
    /\ sumFiles = {}
    /\ sumDoc = NoResult

\* Agent.execute, step "Save full output": save_full_output(agent, topic, doc)
SaveFullOutput ==
    /\ sumPc = "start"
    /\ \E ts \in Timestamps :
         /\ sumPath' = ArchivePath(<<"r">>, <<"t">>, ts)
         /\ sumFiles' = WriteFile(sumFiles, ArchivePath(<<"r">>, <<"t">>, ts),
                                  sumContent)
    /\ sumPc' = "saved"
    /\ UNCHANGED <<sumContent, sumBudget, sumResult, sumDoc, wfVars, chkVars, flowVars, arcVars,
                   wtVars, migVars>>

\* Agent.execute, step "Create summary": create_summary(doc, max_tokens),
\* then the result dict is returned
Summarize ==
    /\ sumPc = "saved"
    /\ sumResult' = CreateSummary(sumContent, sumBudget)
    /\ sumDoc' = AgentResult(CreateSummary(sumContent, sumBudget), sumPath)
    /\ sumPc' = "done"
    /\ UNCHANGED <<sumContent, sumBudget, sumPath, sumFiles, wfVars, chkVars, flowVars, arcVars,
                   wtVars, migVars>>

SumNext == SaveFullOutput \/ Summarize

(***************************************************************************)
(* What each phase's agent is given: run_workflow for a pair of runs whose *)
(* workspace was granted, with the documents the agents produce as inputs  *)
(***************************************************************************)
Runs == {1, 2}

FlowDescs == { <<"A", " ", "b">>, <<"f">> }

\* Full documents an agent may produce; the first two have the same summary
FlowDocs == { <<"a">>, <<"4">>, <<"-", "a">> }

None == [none |-> TRUE]

\* ["kb", "code", "docs"]
ResearchSources == << <<"k", "b">>, <<"c", "o", "d", "e">>, <<"d", "o", "c", "s">> >>

\* "Research completed successfully"
ResearchSummaryText ==
    << "R", "e", "s", "e", "a", "r", "c", "h", " ", "c", "o", "m", "p", "l", "e", "t", "e", "d", " ", "s", "u", "c", "c", "e", "s", "s", "f", "u", "l", "l", "y" >>

\* "Plan created successfully"
PlanSummaryText ==
    << "P", "l", "a", "n", " ", "c", "r", "e", "a", "t", "e", "d", " ", "s", "u", "c", "c", "e", "s", "s", "f", "u", "l", "l", "y" >>

\* "validation"
ValidationTopic ==
    << "v", "a", "l", "i", "d", "a", "t", "i", "o", "n" >>

\* Mutant of AgentInput: the previous phase's full document is loaded
AgentInputLoadsDocument(p, d, prev) ==
    CASE p = 1 -> [task |-> d, context |-> ResearchSources]
      [] p = 2 -> [task |-> d, context |-> prev.doc]
      [] p = 3 -> [task |-> d, context |-> prev.doc]
      [] p = 4 -> [task |-> ValidationTopic, context |-> BranchName(d)]

\* The arguments of <Agent>.execute in phase p, for task description d and
\* the previous phase's artifact prev:
\*   research_agent.execute(task_description, ["kb", "code", "docs"])
\*   plan_agent.execute(task_description, "Research completed successfully")
\*   implement_agent.execute(worktree_path, "Plan created successfully", task_description)
\*   validate_agent.execute(worktree_path, "validation")
AgentInput(p, d, prev) ==
    CASE p = 1 -> [task |-> d, context |-> ResearchSources]
      [] p = 2 -> [task |-> d, context |-> ResearchSummaryText]
      [] p = 3 -> [task |-> d, context |-> PlanSummaryText]
      [] p = 4 -> [task |-> ValidationTopic, context |-> BranchName(d)]

AgentPhases == 1..4

FlowInit ==
    /\ flowPc = [r \in Runs |-> [phase |-> 1, stage |-> "run"]]
    /\ flowDesc \in [Runs -> FlowDescs]
    /\ flowArt = [r \in Runs |-> [p \in AgentPhases |-> None]]
    /\ flowIn = [r \in Runs |-> [p \in AgentPhases |-> None]]

\* The agent of the run's current phase executes: it is called with its
\* arguments, produces a document, archives it and summarizes it
FlowExecute(r) ==
    /\ flowPc[r].stage = "run"
    /\ LET p == flowPc[r].phase
           prev == IF p = 1 THEN None ELSE flowArt[r][p - 1]
       IN  /\ flowIn' = [flowIn EXCEPT ![r][p] = AgentInput(p, flowDesc[r], prev)]
           /\ \E doc \in FlowDocs :
                flowArt' = [flowArt EXCEPT ![r][p] =
                              [doc |-> doc,
                               summary |-> CreateSummary(doc, DefaultMaxTokens)]]
    /\ flowPc' = [flowPc EXCEPT ![r].stage = "chk"]
    /\ UNCHANGED <<flowDesc, wfVars, chkVars, sumVars, arcVars,
                   wtVars, migVars>>

\* The human answers the checkpoint of the run's current phase
FlowCheckpoint(r) ==
    /\ flowPc[r].stage = "chk"
    /\ \E a \in Answers :
         LET c == Classify(a) IN
         IF c = "again"
         THEN UNCHANGED flowPc
         ELSE IF ~ApprovalValue(c)
         THEN flowPc' = [flowPc EXCEPT ![r].stage = "exit1"]
         ELSE IF flowPc[r].phase = 4
         THEN flowPc' = [flowPc EXCEPT ![r].stage = "integrate"]
         ELSE flowPc' = [flowPc EXCEPT ![r] =
                           [phase |-> flowPc[r].phase + 1, stage |-> "run"]]
    /\ UNCHANGED <<flowDesc, flowArt, flowIn, wfVars, chkVars, sumVars, arcVars,
                   wtVars, migVars>>

FlowNext == \E r \in Runs : FlowExecute(r) \/ FlowCheckpoint(r)

(***************************************************************************)
(* The archive of the context firewall under concurrent runs: each run's   *)
(* agents call save_full_output, the clock advances between calls          *)
(***************************************************************************)
MaxClock == 1

\* Documents an agent may hand to save_full_output
ArcDocs == { <<"a">>, <<"4">> }

\* The agent_name argument of the phase's save_full_output call
AgentName(p) ==
    CASE p = 1 -> << "r", "e", "s", "e", "a", "r", "c", "h" >>
      [] p = 2 -> << "p", "l", "a", "n" >>
      [] p = 3 -> << "i", "m", "p", "l", "e", "m", "e", "n", "t" >>
      [] p = 4 -> << "v", "a", "l", "i", "d", "a", "t", "e" >>

\* The phase argument of the call: the topic the agent was executed with
ArchiveTopic(p, d) == IF p = 4 THEN ValidationTopic ELSE d

\* datetime.now().strftime("%Y%m%d-%H%M%S"): the clock to the second
Timestamp(now) == Digits(now)

ArcInit ==
    /\ arcPc = [r \in Runs |-> [phase |-> 1, stage |-> "run"]]
    /\ arcDesc \in [Runs -> FlowDescs]
    /\ arcNow = 0
    /\ arcFiles = {}
    /\ arcLog = [r \in Runs |-> [p \in AgentPhases |-> None]]

\* The agent of the run's current phase archives its document
ArcExecute(r) ==
    /\ arcPc[r].stage = "run"
    /\ LET p == arcPc[r].phase
           path == ArchivePath(AgentName(p), ArchiveTopic(p, arcDesc[r]),
                               Timestamp(arcNow))
       IN  \E doc \in ArcDocs :
             /\ arcFiles' = WriteFile(arcFiles, path, doc)
             /\ arcLog' = [arcLog EXCEPT ![r][p] = [path |-> path, content |-> doc]]
    /\ arcPc' = [arcPc EXCEPT ![r].stage = "chk"]
    /\ UNCHANGED <<arcDesc, arcNow, wfVars, chkVars, sumVars, flowVars,
                   wtVars, migVars>>

\* The human answers the checkpoint of the run's current phase
ArcCheckpoint(r) ==
    /\ arcPc[r].stage = "chk"
    /\ \E a \in Answers :
         LET c == Classify(a) IN
         IF c = "again"
         THEN UNCHANGED arcPc
         ELSE IF ~ApprovalValue(c)
         THEN arcPc' = [arcPc EXCEPT ![r].stage = "exit1"]
         ELSE IF arcPc[r].phase = 4
         THEN arcPc' = [arcPc EXCEPT ![r].stage = "integrate"]
         ELSE arcPc' = [arcPc EXCEPT ![r] =
                          [phase |-> arcPc[r].phase + 1, stage |-> "run"]]
    /\ UNCHANGED <<arcDesc, arcNow, arcFiles, arcLog, wfVars, chkVars, sumVars, flowVars,
                   wtVars, migVars>>

\* A second passes
ArcTick ==
    /\ arcNow < MaxClock
    /\ arcNow' = arcNow + 1
    /\ UNCHANGED <<arcPc, arcDesc, arcFiles, arcLog, wfVars, chkVars, sumVars, flowVars,
                   wtVars, migVars>>

ArcNext == ArcTick \/ \E r \in Runs : ArcExecute(r) \/ ArcCheckpoint(r)

(***************************************************************************)
(* WorktreeManager: create_worktree and merge_worktree called directly by  *)
(* concurrent callers on the shared repository                             *)
(***************************************************************************)
MaxCalls == 3

WtBranches == { BranchNames[DescList[1]], BranchNames[DescList[3]] }

NoCall == [method |-> "none", branch |-> << >>]

runVars == <<pc, desc, trace, decision, issue, createRes, implResult, wsState,
             mergeRes, mergeRet>>

WtInit ==
    /\ wtPc = [c \in Tasks |-> "ready"]
    /\ wtOp = [c \in Tasks |-> NoCall]
    /\ wtRet = [c \in Tasks |-> "none"]
    /\ wtGit = 0
    /\ wtCalls = 0

\* create_worktree(branch_name, ...): `if worktree_path.exists(): return None`
WtCreate(c, b) ==
    /\ wtPc[c] = "ready"
    /\ wtCalls < MaxCalls
    /\ wtCalls' = wtCalls + 1
    /\ wtOp' = [wtOp EXCEPT ![c] = [method |-> "create_worktree", branch |-> b]]
    /\ IF WorktreeExists(b)
       THEN /\ wtRet' = [wtRet EXCEPT ![c] = "None"]
            /\ UNCHANGED wtPc
       ELSE /\ wtRet' = [wtRet EXCEPT ![c] = "none"]
            /\ wtPc' = [wtPc EXCEPT ![c] = "c_add"]
    /\ UNCHANGED <<wtGit, wfVars, chkVars, sumVars, flowVars, arcVars, migVars>>

\* `git worktree add <path> -b <branch>`; the path on exit code 0, else None
WtAdd(c) ==
    /\ wtPc[c] = "c_add"
    /\ LET b == wtOp[c].branch IN
       IF WorktreeAddOk(b)
       THEN /\ dirs' = dirs \cup {b}
            /\ branches' = branches \cup {b}
            /\ wtRet' = [wtRet EXCEPT ![c] = "path"]
       ELSE /\ wtRet' = [wtRet EXCEPT ![c] = "None"]
            /\ UNCHANGED <<dirs, branches>>
    /\ wtGit' = wtGit + 1
    /\ wtPc' = [wtPc EXCEPT ![c] = "ready"]
    /\ UNCHANGED <<wtOp, wtCalls, merged, runVars, chkVars, sumVars, flowVars,
                   arcVars, migVars>>

\* merge_worktree(branch_name): `if not worktree_path.exists(): return False`,
\* otherwise `git checkout main`
WtMerge(c, b) ==
    /\ wtPc[c] = "ready"
    /\ wtCalls < MaxCalls
    /\ wtCalls' = wtCalls + 1
    /\ wtOp' = [wtOp EXCEPT ![c] = [method |-> "merge_worktree", branch |-> b]]
    /\ IF ~WorktreeExists(b)
       THEN /\ wtRet' = [wtRet EXCEPT ![c] = "False"]
            /\ UNCHANGED <<wtPc, wtGit>>
       ELSE /\ wtRet' = [wtRet EXCEPT ![c] = "none"]
            /\ wtGit' = wtGit + 1
            /\ wtPc' = [wtPc EXCEPT ![c] = NextMergePc("checkout")]
    /\ UNCHANGED <<wfVars, chkVars, sumVars, flowVars, arcVars, migVars>>

\* `git merge --no-ff <branch>`: fails on a conflict or a missing branch
WtGitMerge(c) ==
    /\ wtPc[c] = "m_merge"
    /\ \E ok \in BOOLEAN :
         merged' = IF ok /\ wtOp[c].branch \in branches
                   THEN merged \cup {wtOp[c].branch} ELSE merged
    /\ wtGit' = wtGit + 1
    /\ wtPc' = [wtPc EXCEPT ![c] = NextMergePc("merge")]
    /\ UNCHANGED <<wtOp, wtRet, wtCalls, dirs, branches, runVars, chkVars,
                   sumVars, flowVars, arcVars, migVars>>

\* `git worktree remove <path>`
WtGitRemove(c) ==
    /\ wtPc[c] = "m_remove"
    /\ \E clean \in BOOLEAN :
         dirs' = IF WorktreeRemoveOk(wtOp[c].branch, clean)
                 THEN dirs \ {wtOp[c].branch} ELSE dirs
    /\ wtGit' = wtGit + 1
    /\ wtPc' = [wtPc EXCEPT ![c] = NextMergePc("remove")]
    /\ UNCHANGED <<wtOp, wtRet, wtCalls, branches, merged, runVars, chkVars,
                   sumVars, flowVars, arcVars, migVars>>

\* `git branch -d <branch>`, then `return True`
WtGitBranchDelete(c) ==
    /\ wtPc[c] = "m_branchd"
    /\ branches' = IF BranchDeleteOk(wtOp[c].branch, dirs, merged)
                   THEN branches \ {wtOp[c].branch} ELSE branches
    /\ wtGit' = wtGit + 1
    /\ wtRet' = [wtRet EXCEPT ![c] = "True"]
    /\ wtPc' = [wtPc EXCEPT ![c] = "ready"]
    /\ UNCHANGED <<wtOp, wtCalls, dirs, merged, runVars, chkVars, sumVars,
                   flowVars, arcVars, migVars>>

WtNext ==
    \E c \in Tasks :
        \/ \E b \in WtBranches : WtCreate(c, b)
        \/ WtAdd(c)
        \/ \E b \in WtBranches : WtMerge(c, b)
        \/ WtGitMerge(c)
        \/ WtGitRemove(c)
        \/ WtGitBranchDelete(c)

(***************************************************************************)
(* auto-migrate.py and create-issues-from-migrations.py, run one after the *)
(* other on the records under .autoflow/migrations/                        *)
(***************************************************************************)
NumProjects == 2
Projects == 1..NumProjects

MaxRuns == 3

PyNone == <<"None">>
PyStr(x) == <<"str", x>>

\* json.dump / json.load of a value that is None or a string
JsonDump(v) == IF v = PyNone THEN <<"null">> ELSE <<"string", v[2]>>
JsonLoad(j) == IF j = <<"null">> THEN PyNone ELSE PyStr(j[2])

\* json.dump(record, f) / json.load(f)
RecordDump(r) == [k \in DOMAIN r |-> JsonDump(r[k])]
RecordLoad(f) == [k \in DOMAIN f |-> JsonLoad(f[k])]

\* bool(value) of None or a string
Truthy(v) == v # PyNone /\ v[2] # << >>

\* The skip test finding no issue on any record
AlreadyHasIssueNever(record) == FALSE

\* `if record.get("github_issue")`
AlreadyHasIssue(record) == Truthy(record.github_issue)

\* The URL `gh issue create` prints for the n-th issue of the repository
IssueUrl(n) == PyStr(Digits(n))

\* save_migration_record(project, None)
NewRecord(p) == [project |-> PyStr(Digits(p)), github_issue |-> PyNone]

\* record["github_issue"] = issue_url
WithIssue(r, url) == [r EXCEPT !.github_issue = url]

\* record["github_issue"] = issue_url; record["issue_created_at"] = now
WithIssueAndDate(r, url) ==
    [k \in DOMAIN r \cup {"issue_created_at"} |->
        IF k = "github_issue" THEN url
        ELSE IF k = "issue_created_at" THEN PyStr(<<"n", "o", "w">>)
        ELSE r[k]]

\* open(record_file, 'w'): the file is created or replaced
WriteRecord(files, p, r) ==
    [q \in DOMAIN files \cup {p} |-> IF q = p THEN RecordDump(r) ELSE files[q]]

Tally(script, ran) ==
    [script |-> script, ran |-> ran, created |-> 0, failed |-> 0, skipped |-> 0]

Min(S) == CHOOSE x \in S : \A y \in S : x <= y

MigInit ==
    /\ migPc = "idle"
    /\ migAuth = FALSE
    /\ migTodo = {}
    /\ migFiles = [p \in {} |-> RecordDump(NewRecord(p))]
    /\ migIssues = << >>
    /\ migAttempts = 0
    /\ migRuns = 0
    /\ migRun = Tally("none", FALSE)
    /\ migPrev = Tally("none", FALSE)

\* auto-migrate.py, migrate_all_projects up to its loop: `gh auth status`
MigAutoStart ==
    /\ migPc = "idle"
    /\ migRuns < MaxRuns
    /\ migRuns' = migRuns + 1
    /\ migAuth' \in BOOLEAN
    /\ migPc' = "auto"
    /\ migTodo' = Projects
    /\ migRun' = Tally("auto", TRUE)
    /\ UNCHANGED <<migFiles, migIssues, migAttempts, migPrev,
                   wfVars, chkVars, sumVars, flowVars, arcVars, wtVars>>

\* One turn of `for project in projects`: the record is saved with no
\* github_issue; when authenticated the issue is created, and on success
\* the record is read back and rewritten with the URL
MigAutoProject ==
    /\ migPc = "auto"
    /\ migTodo # {}
    /\ LET p == Min(migTodo)
           saved == WriteRecord(migFiles, p, NewRecord(p))
       IN  /\ migTodo' = migTodo \ {p}
           /\ IF migAuth
              THEN /\ migAttempts' = migAttempts + 1
                   /\ \E ok \in BOOLEAN :
                        IF ok
                        THEN /\ migIssues' = Append(migIssues, p)
                             /\ migFiles' =
                                  WriteRecord(saved, p,
                                      WithIssue(RecordLoad(saved[p]),
                                                IssueUrl(Len(migIssues) + 1)))
                             /\ migRun' = [migRun EXCEPT !.created = @ + 1]
                        ELSE /\ migFiles' = saved
                             /\ migRun' = [migRun EXCEPT !.failed = @ + 1]
                             /\ UNCHANGED migIssues
              ELSE /\ migFiles' = saved
                   /\ UNCHANGED <<migIssues, migAttempts, migRun>>
    /\ UNCHANGED <<migPc, migAuth, migRuns, migPrev,
                   wfVars, chkVars, sumVars, flowVars, arcVars, wtVars>>

\* After the loop: the summary is written and the script ends
MigAutoEnd ==
    /\ migPc = "auto"
    /\ migTodo = {}
    /\ migPc' = "idle"
    /\ migPrev' = migRun
    /\ UNCHANGED <<migAuth, migTodo, migFiles, migIssues, migAttempts, migRuns,
                   migRun, wfVars, chkVars, sumVars, flowVars, arcVars, wtVars>>

\* create-issues-from-migrations.py, main up to its loop: it returns when gh
\* is not authenticated or there is no record file
MigCreateStart ==
    /\ migPc = "idle"
    /\ migRuns < MaxRuns
    /\ migRuns' = migRuns + 1
    /\ migAuth' \in BOOLEAN
    /\ IF migAuth' /\ DOMAIN migFiles # {}
       THEN /\ migPc' = "create"
            /\ migTodo' = DOMAIN migFiles
            /\ migRun' = Tally("create", TRUE)
            /\ UNCHANGED migPrev
       ELSE /\ migPrev' = Tally("create", FALSE)
            /\ UNCHANGED <<migPc, migTodo, migRun>>
    /\ UNCHANGED <<migFiles, migIssues, migAttempts,
                   wfVars, chkVars, sumVars, flowVars, arcVars, wtVars>>

\* One turn of `for migration_file in migration_files` (glob order): a
\* record with a github_issue is skipped; otherwise the issue is created
\* and, on success, the record is rewritten with the URL and the date
MigCreateRecord(p) ==
    /\ migPc = "create"
    /\ p \in migTodo
    /\ migTodo' = migTodo \ {p}
    /\ LET record == RecordLoad(migFiles[p]) IN
       IF AlreadyHasIssue(record)
       THEN /\ migRun' = [migRun EXCEPT !.skipped = @ + 1]
            /\ UNCHANGED <<migFiles, migIssues, migAttempts>>
       ELSE /\ migAttempts' = migAttempts + 1
            /\ \E ok \in BOOLEAN :
                 IF ok
                 THEN /\ migIssues' = Append(migIssues, p)
                      /\ migFiles' =
                           WriteRecord(migFiles, p,
                               WithIssueAndDate(record,
                                                IssueUrl(Len(migIssues) + 1)))
                      /\ migRun' = [migRun EXCEPT !.created = @ + 1]
                 ELSE /\ migRun' = [migRun EXCEPT !.failed = @ + 1]
                      /\ UNCHANGED <<migFiles, migIssues>>
    /\ UNCHANGED <<migPc, migAuth, migRuns, migPrev,
                   wfVars, chkVars, sumVars, flowVars, arcVars, wtVars>>

\* After the loop: "Created <n> GitHub Issues" is printed and main returns
MigCreateEnd ==
    /\ migPc = "create"
    /\ migTodo = {}
    /\ migPc' = "idle"
    /\ migPrev' = migRun
    /\ UNCHANGED <<migAuth, migTodo, migFiles, migIssues, migAttempts, migRuns,
                   migRun, wfVars, chkVars, sumVars, flowVars, arcVars, wtVars>>

MigNext ==
    \/ MigAutoStart
    \/ MigAutoProject
    \/ MigAutoEnd
    \/ MigCreateStart
    \/ \E p \in Projects : MigCreateRecord(p)
    \/ MigCreateEnd

(***************************************************************************)
(* Idle values of the variables a specification does not use               *)
(***************************************************************************)
WfIdle ==
    /\ pc = [t \in Tasks |-> "idle"]
    /\ desc = [t \in Tasks |-> << >>]
    /\ trace = [t \in Tasks |-> << >>]
    /\ decision = [t \in Tasks |-> [p \in Phases |-> "none"]]
    /\ issue = [t \in Tasks |-> [p \in Phases |-> "none"]]
    /\ createRes = [t \in Tasks |-> "pending"]
    /\ implResult = [t \in Tasks |-> "unset"]
    /\ wsState = [t \in Tasks |-> "None"]
    /\ mergeRes = [t \in Tasks |-> "none"]
    /\ mergeRet = [t \in Tasks |-> "none"]
    /\ dirs = {}
    /\ branches = {}
    /\ merged = {}

ChkIdle ==
    /\ chkPc = "idle"
    /\ chkScript = << >>
    /\ chkAsked = 0
    /\ chkLast = << >>
    /\ chkResult = "none"

SumIdle ==
    /\ sumPc = "idle"
    /\ sumContent = << >>
    /\ sumBudget = 0
    /\ sumPath = << >>
    /\ sumResult = << >>
    /\ sumFiles = {}
    /\ sumDoc = NoResult

FlowIdle ==
    /\ flowPc = [r \in Runs |-> [phase |-> 0, stage |-> "idle"]]
    /\ flowDesc = [r \in Runs |-> << >>]
    /\ flowArt = [r \in Runs |-> [p \in AgentPhases |-> None]]
    /\ flowIn = [r \in Runs |-> [p \in AgentPhases |-> None]]

ArcIdle ==
    /\ arcPc = [r \in Runs |-> [phase |-> 0, stage |-> "idle"]]
    /\ arcDesc = [r \in Runs |-> << >>]
    /\ arcNow = 0
    /\ arcFiles = {}
    /\ arcLog = [r \in Runs |-> [p \in AgentPhases |-> None]]

WtIdle ==
    /\ wtPc = [c \in Tasks |-> "idle"]
    /\ wtOp = [c \in Tasks |-> NoCall]
    /\ wtRet = [c \in Tasks |-> "none"]
    /\ wtGit = 0
    /\ wtCalls = 0

MigIdle ==
    /\ migPc = "off"
    /\ migAuth = FALSE
    /\ migTodo = {}
    /\ migFiles = [p \in {} |-> RecordDump(NewRecord(p))]
    /\ migIssues = << >>
    /\ migAttempts = 0
    /\ migRuns = 0
    /\ migRun = Tally("none", FALSE)
    /\ migPrev = Tally("none", FALSE)

Init == WfInit /\ ChkIdle /\ SumIdle /\ FlowIdle /\ ArcIdle /\ WtIdle /\ MigIdle

Next == WfNext

Spec == Init /\ [][Next]_vars

\* Every process is scheduled, and the human at a checkpoint eventually
\* types a response that request_approval recognizes
Fairness == \A t \in Tasks : WF_vars(TaskStep(t))

SpecLive == Init /\ [][Next]_vars /\ Fairness

InitChk == WfIdle /\ ChkInit /\ SumIdle /\ FlowIdle /\ ArcIdle /\ WtIdle /\ MigIdle

SpecChk == InitChk /\ [][ChkNext]_vars

InitSum == WfIdle /\ ChkIdle /\ SumInit /\ FlowIdle /\ ArcIdle /\ WtIdle /\ MigIdle

SpecSum == InitSum /\ [][SumNext]_vars

InitFlow == WfIdle /\ ChkIdle /\ SumIdle /\ FlowInit /\ ArcIdle /\ WtIdle /\ MigIdle

SpecFlow == InitFlow /\ [][FlowNext]_vars

InitArc == WfIdle /\ ChkIdle /\ SumIdle /\ FlowIdle /\ ArcInit /\ WtIdle /\ MigIdle

SpecArc == InitArc /\ [][ArcNext]_vars

InitWt == WfIdle /\ ChkIdle /\ SumIdle /\ FlowIdle /\ ArcIdle /\ WtInit /\ MigIdle

SpecWt == InitWt /\ [][WtNext]_vars

InitMig == WfIdle /\ ChkIdle /\ SumIdle /\ FlowIdle /\ ArcIdle /\ WtIdle /\ MigInit

SpecMig == InitMig /\ [][MigNext]_vars


(***************************************************************************)
(* Properties                                                              *)
(***************************************************************************)
Has(t, k, p) == \E i \in 1..Len(trace[t]) : trace[t][i] = Ev(k, p)

SameBranch(t, u) == t # u /\ Branch(t) = Branch(u)

\* The task holds a workspace that has not been removed
Live(t) == wsState[t] \in {"Created", "Merged"}

GitKinds == { "git_worktree_add", "git_checkout", "git_merge",
              "git_worktree_remove", "git_branch_d" }

GitCount(tr) == Cardinality({ i \in 1..Len(tr) : tr[i][1] \in GitKinds })

\* C1: in every run the phases start in the order 1..5, and phase N+1
\* starts only if the checkpoint of phase N answered Approve in that run
\* (also when Implement asked no checkpoint because create_worktree failed).
C1_PhaseOrderGated ==
    \A t \in Tasks :
        /\ \A i \in 1..Len(trace[t]), j \in 1..Len(trace[t]) :
             (i < j /\ trace[t][i][1] = "start" /\ trace[t][j][1] = "start")
                 => trace[t][i][2] < trace[t][j][2]
        /\ \A p \in 2..5 :
             Has(t, "start", p)
                 => (Has(t, "start", p - 1) /\ decision[t][p - 1] = "approve")

\* C2: once a checkpoint answered Reject, no later phase's agent executes in
\* that run and merge_worktree is never called: the run has exited.
C2_RejectStopsRun ==
    \A t \in Tasks : \A p \in Phases :
        decision[t][p] = "reject"
            => /\ pc[t] = "exit1"
               /\ \A q \in Phases :
                    q > p => (~Has(t, "exec", q) /\ ~Has(t, "start", q))
               /\ ~Has(t, "merge_worktree", 5)
               /\ ~Has(t, "git_merge", 5)
               /\ mergeRet[t] = "none"

C2_Witness ==
    \E t \in Tasks :
        /\ decision[t][3] = "reject"
        /\ wsState[t] = "Created"
        /\ pc[t] = "exit1"

\* C3: request_approval returns False, never True, when the response it
\* returns on is 'modify' or 'm' (in any letter case).
C3_ModifyIsReject ==
    (chkPc = "returned"
       /\ chkLast \in { <<"m", "o", "d", "i", "f", "y">>, <<"m">>, <<"M">> })
        => chkResult = "false"

C3_Witness ==
    /\ chkPc = "returned"
    /\ chkLast = <<"m", "o", "d", "i", "f", "y">>
    /\ chkAsked = 2
    /\ chkResult = "false"

\* C4: when the merge step of merge_worktree stops on a conflict, the
\* worktree directory is not removed and the branch is not deleted (the
\* workspace stays Created); a workspace is Removed only after its merge
\* succeeded.
C4_CleanupGatedByMerge ==
    \A t \in Tasks :
        /\ mergeRes[t] = "conflict"
             => /\ Branch(t) \in dirs
                /\ Branch(t) \in branches
                /\ wsState[t] = "Created"
        /\ wsState[t] = "Removed" => mergeRes[t] = "ok"

\* C5: every phase, Integrate included, passes a human checkpoint: the
\* agent runs, its output is archived, the checkpoint is asked, and the
\* effect of the phase (for Integrate, the merge) comes only after Approve.
C5_EveryPhaseCheckpointed ==
    \A t \in Tasks :
        /\ \A p \in 1..4 :
             decision[t][p] = "approve"
                 => (Has(t, "exec", p) /\ Has(t, "save", p) /\ Has(t, "ask", p))
        /\ Has(t, "git_merge", 5)
             => (Has(t, "ask", 5) /\ decision[t][5] = "approve")

\* C6: a create_worktree call for a branch whose worktree already exists
\* returns None and has no side effect: no git command runs, and no
\* directory or branch is created.
C6_SecondCreateNoSideEffects ==
    [][ \A t \in Tasks :
          (pc[t] = "p3_create" /\ pc'[t] # "p3_create" /\ Branch(t) \in dirs)
              => /\ createRes'[t] = "exists"
                 /\ implResult'[t] = "empty"
                 /\ wsState'[t] = "None"
                 /\ GitCount(trace'[t]) = GitCount(trace[t])
                 /\ dirs' = dirs
                 /\ branches' = branches
                 /\ merged' = merged ]_vars

C6_Witness ==
    \E t \in Tasks, u \in Tasks :
        /\ SameBranch(t, u)
        /\ createRes[t] = "granted"
        /\ Live(t)
        /\ createRes[u] = "exists"
        /\ GitCount(trace[u]) = 0

C8_OneLiveWorkspacePerBranch ==
    \A t \in Tasks :
        LET holders == { u \in Tasks : Branch(u) = Branch(t) /\ Live(u) } IN
        /\ Cardinality(holders) <= 1
        /\ Branch(t) \in dirs <=> Cardinality(holders) = 1

\* A second workspace for a branch name, after the first one was merged
\* and removed
C8_Witness ==
    \E t \in Tasks, u \in Tasks :
        /\ SameBranch(t, u)
        /\ wsState[t] = "Removed"
        /\ wsState[u] = "Created"

\* C9: the length of the summary is at most the character budget
\* (max_tokens * 4) plus the length of the truncation marker, whatever the
\* content.
C9_SummaryBounded ==
    sumPc = "done"
        => Len(sumResult) <= sumBudget * CharsPerToken + Len(TruncationMarker)

C9_Witness ==
    /\ sumPc = "done"
    /\ sumBudget = 1
    /\ Len(sumContent) = 3
    /\ Len(sumResult) = CharsPerToken + Len(TruncationMarker)

\* C10: every summary text ends with a pointer to the location the full
\* content was archived at.
C10_SummaryEndsWithPointer ==
    sumPc = "done" => EndsWith(sumResult, sumPath)


\* C11: a summary is never produced without an archived full artifact: when
\* create_summary has run, save_full_output has already written the full
\* output, and the result of the phase carries the summary and the location
\* of the archived document.
C11_SummaryHasArchive ==
    sumResult # << >>
        => /\ <<sumPath, sumContent>> \in sumFiles
           /\ sumDoc.summary = sumResult
           /\ sumDoc.full_document = sumPath
           /\ \E f \in sumFiles : f[1] = sumDoc.full_document /\ f[2] = sumContent

C11_Witness ==
    /\ sumPc = "done"
    /\ sumContent = <<"-", "a", "\n">>
    /\ sumDoc.summary = Header(1) \o <<"-", "a">>
    /\ <<sumDoc.full_document, sumContent>> \in sumFiles


StartsWith(s, prefix) ==
    Len(prefix) <= Len(s) /\ SubSeq(s, 1, Len(prefix)) = prefix

Contains(s, sub) ==
    \E i \in 0..(Len(s) - Len(sub)) : SubSeq(s, i + 1, i + Len(sub)) = sub

\* C12: summarizing the empty string with budget 2000 does not fail; the
\* summary states that zero structured points were found and includes a
\* reference to the archived full content.
C12_EmptyContentSummary ==
    (sumPc = "done" /\ sumContent = << >> /\ sumBudget = DefaultMaxTokens)
        => /\ StartsWith(sumResult, Header(0))
           /\ Contains(sumResult, sumPath)


\* C14: the input of a phase's agent does not depend on the previous
\* phase's full document: two runs of the same task whose previous phase
\* produced the same summary give the agent the same input, whatever the
\* full documents were.
C14_InputIndependentOfFullOutput ==
    \A r \in Runs, q \in Runs : \A p \in 1..3 :
        ( /\ flowDesc[r] = flowDesc[q]
          /\ flowIn[r][p + 1] # None
          /\ flowIn[q][p + 1] # None
          /\ flowArt[r][p].summary = flowArt[q][p].summary )
            => flowIn[r][p + 1] = flowIn[q][p + 1]

C14_Witness ==
    \E r \in Runs, q \in Runs :
        /\ flowDesc[r] = flowDesc[q]
        /\ flowArt[r][1] # None /\ flowArt[q][1] # None
        /\ flowArt[r][1].doc # flowArt[q][1].doc
        /\ flowArt[r][1].summary = flowArt[q][1].summary
        /\ flowIn[r][2] # None /\ flowIn[q][2] # None

\* C15: after Research, an agent is given the run's task description and
\* the approved summary of the previous phase: Plan the Research summary,
\* Implement the Plan summary, Validate the task description of the run.
C15_InputIsApprovedSummary ==
    \A r \in Runs :
        /\ \A p \in {2, 3} :
             flowIn[r][p] # None
                 => /\ flowIn[r][p].task = flowDesc[r]
                    /\ flowIn[r][p].context = flowArt[r][p - 1].summary
        /\ flowIn[r][4] # None => flowIn[r][4].task = flowDesc[r]


\* C16: when every checkpoint of a run answered Approve, the run has
\* completed, each of the five phases has archived an artifact in the
\* context firewall, and the task's workspace is Removed.
AllApproved(t) == \A p \in 1..4 : decision[t][p] = "approve"

C16_ScenarioA ==
    \A t \in Tasks :
        (AllApproved(t) /\ pc[t] = "done")
            => /\ \A p \in Phases : Has(t, "save", p)
               /\ wsState[t] = "Removed"


Approved(t) == { p \in Phases : decision[t][p] = "approve" }

\* The git commands of merge_worktree
CleanupKinds == { "git_checkout", "git_merge", "git_worktree_remove",
                  "git_branch_d" }

NeverMergedNorRemoved(t) ==
    /\ wsState[t] = "Created"
    /\ Branch(t) \in dirs
    /\ Branch(t) \in branches
    /\ mergeRes[t] = "none"
    /\ \A i \in 1..Len(trace[t]) :
         ~(trace[t][i][2] = 5 /\ trace[t][i][1] \in CleanupKinds)

\* C17 as stated: a run whose Validate checkpoint answered Reject has ended
\* at Validate with four approved phase results, and its workspace is still
\* Created, never merged and never removed.
C17_FourApprovedAtValidate ==
    \A t \in Tasks :
        decision[t][4] = "reject"
            => /\ pc[t] = "exit1"
               /\ Cardinality(Approved(t)) = 4
               /\ NeverMergedNorRemoved(t)

\* C17: a run whose Validate checkpoint answered Reject has ended at
\* Validate with exactly the three phases before it approved (Research,
\* Plan, Implement), Integrate never started, and its workspace is still
\* Created, never merged and never removed.
C17_ScenarioB ==
    \A t \in Tasks :
        decision[t][4] = "reject"
            => /\ pc[t] = "exit1"
               /\ Approved(t) = {1, 2, 3}
               /\ ~Has(t, "start", 5)
               /\ NeverMergedNorRemoved(t)

C17_Witness ==
    \E t \in Tasks :
        /\ decision[t][4] = "reject"
        /\ Has(t, "reject", 4)
        /\ Approved(t) = {1, 2, 3}
        /\ wsState[t] = "Created"

\* The agent of phase p started executing and raised before its document
\* was archived
AgentFailed(t, p) == Has(t, "exec", p) /\ ~Has(t, "save", p)

\* C18: when a phase's agent raised an execution error, the run has ended
\* in the aborted outcome (not in a crash), and no later phase has started.
C18_AgentErrorAborts ==
    \A t \in Tasks : \A p \in 1..4 :
        AgentFailed(t, p)
            => /\ pc[t] = "exit1"
               /\ \A q \in Phases : q > p => ~Has(t, "start", q)

\* C19: when create_worktree did not grant the workspace (it exists already
\* or git refused), the Implement agent is not invoked, Validate and
\* Integrate are not entered, and the run does not crash.
C19_CreateConflictAborts ==
    \A t \in Tasks :
        createRes[t] \in {"exists", "lost"}
            => /\ ~Has(t, "exec", 3)
               /\ ~Has(t, "start", 4)
               /\ ~Has(t, "start", 5)
               /\ pc[t] # "crash"

\* C20: merge_worktree returns True only when `git merge --no-ff` succeeded.
C20_MergeReportsOutcome ==
    \A t \in Tasks : mergeRet[t] = "true" => mergeRes[t] = "ok"


\* C21: when creating the phase's issue failed, or `git worktree add`
\* failed, the phase's agent is not executed and no cleanup command runs.
C21_ToolFailureAbortsPhase ==
    \A t \in Tasks :
        /\ \A p \in {1, 2} : issue[t][p] = "failed" => ~Has(t, "exec", p)
        /\ createRes[t] = "lost"
               => /\ ~Has(t, "exec", 3)
                  /\ ~Has(t, "git_worktree_remove", 5)
                  /\ ~Has(t, "git_branch_d", 5)


\* What the run's agent of phase p archived is on disk, unmodified
Retained(r, p) ==
    arcLog[r][p] # None => <<arcLog[r][p].path, arcLog[r][p].content>> \in arcFiles

\* C22: no two save_full_output calls write to the same location, and no
\* archived artifact is ever overwritten.
C22_ArchiveNeverCollides ==
    /\ \A r \in Runs, q \in Runs : \A p \in AgentPhases, k \in AgentPhases :
         ( /\ <<r, p>> # <<q, k>>
           /\ arcLog[r][p] # None
           /\ arcLog[q][k] # None )
             => arcLog[r][p].path # arcLog[q][k].path
    /\ \A r \in Runs : \A p \in AgentPhases : Retained(r, p)


\* C27: after a rejection at a checkpoint, every artifact the run archived
\* before it is still on disk, unmodified.
C27_RejectionRetainsArtifacts ==
    \A r \in Runs :
        arcPc[r].stage = "exit1"
            => \A p \in AgentPhases : p <= arcPc[r].phase => Retained(r, p)


\* C23: request_approval returns True only when the response it returned on
\* is 'yes' or 'y' in any letter case; an empty or unrecognized response
\* returns nothing (the prompt is repeated) and 'no' / 'modify' return False.
C23_ApprovalOnlyOnYes ==
    /\ chkResult = "true"
         => /\ chkPc = "returned"
            /\ chkLast \in { <<"y", "e", "s">>, <<"y">>, <<"Y">> }
    /\ (chkAsked > 0 /\ chkLast \in { << >>, <<"o", "k">> })
         => (chkPc = "prompt" /\ chkResult = "none")

C23_Witness ==
    /\ chkPc = "returned"
    /\ chkAsked = 2
    /\ chkLast = <<"Y">>
    /\ chkResult = "true"


\* The positions of event e in the task's trace
Positions(t, e) == { i \in 1..Len(trace[t]) : trace[t][i] = e }

MergeKinds == { "merge_worktree", "git_checkout", "git_merge",
                "git_worktree_remove", "git_branch_d" }

\* The calls C24 is about
LifetimeKinds == { "merge_worktree", "git_checkout", "git_merge",
                   "git_worktree_remove", "git_branch_d",
                   "exec", "git_worktree_add", "start" }

\* C24: the workspace is created before the Implement agent is invoked,
\* it is still there, as created, when the Validate agent runs, and it is
\* merged or released only after Integrate has started.
C24_WorkspaceLifetime ==
    \A t \in Tasks :
        /\ LET marks == SelectSeq(trace[t], LAMBDA e : e[1] \in LifetimeKinds)
           IN  \A j \in 1..Len(marks) :
                 /\ (marks[j][1] = "exec" /\ marks[j][2] \in {3, 4})
                      => /\ createRes[t] = "granted"
                         /\ \E i \in 1..(j - 1) :
                              marks[i] = Ev("git_worktree_add", 3)
                 /\ marks[j][1] \in MergeKinds
                      => /\ marks[j][2] = 5
                         /\ \E i \in 1..(j - 1) : marks[i] = Ev("start", 5)
        /\ (createRes[t] = "granted" /\ ~Has(t, "start", 5))
             => NeverMergedNorRemoved(t)

C24_Witness ==
    \E t \in Tasks : \E u \in Tasks :
        /\ pc[t] = "p4_chk"
        /\ Has(t, "exec", 4)
        /\ Branch(t) \in dirs
        /\ SameBranch(t, u)
        /\ createRes[u] \in {"exists", "lost"}


\* No event of these kinds occurs twice in the task's trace
AtMostOnce(t, kinds) ==
    \A i \in 1..Len(trace[t]) :
        LET e == trace[t][i] IN
        e[1] \in kinds
            => \A j \in (i + 1)..Len(trace[t]) : trace[t][j] # e

\* The calls of merge_worktree in the order of its code
MergeOrder == << "merge_worktree", "git_checkout", "git_merge",
                "git_worktree_remove", "git_branch_d" >>

\* C25: merge_worktree on an existing workspace runs checkout main, then
\* the merge, then the worktree removal, then the branch deletion, each at
\* most once; no removal or deletion comes before the merge.
C25_MergeStepsInOrder ==
    \A t \in Tasks :
        /\ LET steps == SelectSeq(trace[t], LAMBDA e : e[1] \in MergeKinds) IN
           /\ Len(steps) <= Len(MergeOrder)
           /\ \A n \in 1..Len(steps) : steps[n] = Ev(MergeOrder[n], 5)
        /\ mergeRet[t] = "true"
             => \A k \in MergeKinds : Has(t, k, 5)

C25_Witness ==
    \E t \in Tasks :
        /\ mergeRet[t] = "true"
        /\ mergeRes[t] = "ok"
        /\ wsState[t] = "Removed"
        /\ Has(t, "git_branch_d", 5)


\* The exit status of the process: sys.exit(1), an uncaught exception
\* (status 1), or main returning (status 0); -1 while it runs
ExitCode(t) ==
    CASE pc[t] = "exit1" -> 1
      [] pc[t] = "crash" -> 1
      [] pc[t] = "done"  -> 0
      [] OTHER           -> -1

Rejected(t) == \E p \in Phases : decision[t][p] = "reject"

\* The run went through all five phases: every checkpoint approved and
\* merge_worktree returned
Completed(t) == AllApproved(t) /\ mergeRet[t] # "none"

\* C26: the process exits with status 1 when the task-description argument
\* is missing (no phase is started) or when a checkpoint was rejected, and
\* with status 0 when the run completed.
C26_ExitCodes ==
    \A t \in Tasks :
        /\ Has(t, "usage", 0)
             => (ExitCode(t) = 1 /\ \A p \in Phases : ~Has(t, "start", p))
        /\ Rejected(t) => ExitCode(t) = 1
        /\ Completed(t) => ExitCode(t) = 0

C26_Witness ==
    \E t \in Tasks : \E u \in Tasks :
        /\ Has(t, "usage", 0) /\ ExitCode(t) = 1
        /\ Completed(u) /\ ExitCode(u) = 0


Count(t, k, p) == Cardinality(Positions(t, Ev(k, p)))

OnceKinds == { "exec", "create_worktree", "git_worktree_add",
               "merge_worktree", "git_merge" }

\* C29: in a run each phase's agent executes at most once, and
\* create_worktree and merge_worktree are each called at most once,
\* whatever the agents, the external commands and the human answered.
C29_NoRetry ==
    \A t \in Tasks :
        AtMostOnce(t, OnceKinds)

C29_Witness ==
    \E t \in Tasks : \E u \in Tasks :
        /\ pc[t] = "done" /\ mergeRes[t] = "conflict"
        /\ Count(t, "merge_worktree", 5) = 1
        /\ pc[u] = "crash" /\ createRes[u] = "lost"
        /\ Count(u, "create_worktree", 3) = 1


\* The task is blocked in input() at a checkpoint
Waiting(t) == pc[t] \in {"p1_chk", "p2_chk", "p3_chk", "p4_chk"}

Terminated(t) == pc[t] \in {"done", "exit1", "crash"}

\* No other run was ever granted a workspace on the task's branch
BranchUntouched(u) ==
    \A v \in Tasks : SameBranch(u, v) => createRes[v] # "granted"

\* C30: while a task waits at a checkpoint, every other task that has not
\* terminated can take its next step; its `git worktree add` on a branch no
\* other run has used is granted, and the merge_worktree steps it takes
\* proceed to the next command.
C30_WaitingBlocksOnlyItself ==
    [][ \A t \in Tasks : \A u \in Tasks :
          (t # u /\ Waiting(t))
              => /\ ~Terminated(u) => ENABLED TaskStep(u)
                 /\ (ImplementAdd(u) /\ BranchUntouched(u))
                      => (createRes'[u] = "granted" /\ Branch(u) \in dirs')
                 /\ MergeStep(u) => pc'[u] = "m_remove"
                 /\ BranchDeleteStep(u) => (pc'[u] = "done" /\ mergeRet'[u] = "true")
      ]_vars

C30_Witness ==
    \E t \in Tasks : \E u \in Tasks :
        /\ pc[t] = "p3_chk"
        /\ wsState[t] = "Created"
        /\ ~SameBranch(t, u)
        /\ pc[u] = "done"
        /\ wsState[u] = "Removed"
        /\ Branch(t) \in dirs


\* C31: every run eventually ends Completed (main returned after the five
\* phases) or Aborted (exit after a rejection); it ends in no other state.
C31_EndsCompletedOrAborted ==
    \A t \in Tasks : <>(pc[t] \in {"done", "exit1"})


\* C32: the body of the summary is the first 20 structured-point lines of
\* the content in their order when there is one; when there is none, the
\* body is a non-empty prefix of the raw content.
C32_BodyPointsOrFallback ==
    (sumPc = "done" /\ sumBudget = DefaultMaxTokens)
        => LET kp == KeyPoints(sumContent) IN
           IF kp # << >>
           THEN sumResult = Header(Len(kp)) \o JoinLines(Take(kp, MaxKeyPoints))
           ELSE sumContent # << >>
                    => \E m \in 1..Len(sumContent) :
                         sumResult = Header(0) \o Take(sumContent, m)

\* C33: the lines counted as structured points are exactly the lines that
\* begin, after leading whitespace, with a bullet marker ('-' or '*') or a
\* numbered-list marker (digits followed by '.').
C33_CollectsExactlyListItems ==
    (sumPc = "done" /\ sumBudget = DefaultMaxTokens)
        => LET IsDigit(c) == c \in { DigitChar(d) : d \in 0..9 }
               IsListItem(l) ==
                   LET st == LStrip(l) IN
                   /\ st # << >>
                   /\ \/ st[1] \in { "-", "*" }
                      \/ \E k \in 1..(Len(st) - 1) :
                           /\ \A i \in 1..k : IsDigit(st[i])
                           /\ st[k + 1] = "."
               lines == SplitLines(sumContent)
               items == { i \in 1..Len(lines) : IsListItem(lines[i]) }
           IN  StartsWith(sumResult, Header(Cardinality(items)))


\* C34 as stated: the header of every summary states the total number of
\* structured points found in the content, whatever the budget.
C34_HeaderStatesTotal ==
    sumPc = "done"
        => LET lines == SplitLines(sumContent)
               found == { i \in 1..Len(lines) : IsKeyPoint(lines[i]) }
           IN  StartsWith(sumResult, Header(Cardinality(found)))

\* C34 amended: when the budget is at least as long as the header, the
\* header of the summary states the count of all matching lines of the
\* content, not the number of points kept in the body.
C34_HeaderStatesTotalWithinBudget ==
    sumPc = "done"
        => LET lines == SplitLines(sumContent)
               found == { i \in 1..Len(lines) : IsKeyPoint(lines[i]) }
               header == Header(Cardinality(found))
           IN  Len(header) <= sumBudget * CharsPerToken
                   => StartsWith(sumResult, header)

C34_Witness ==
    /\ sumPc = "done"
    /\ StartsWith(sumResult, Header(MaxKeyPoints + 1))
    /\ Len(SplitLines(sumResult)) = 2 + MaxKeyPoints

\* C35: the summary ends with the truncation marker exactly when header
\* plus body are longer than the character budget; the text before the
\* marker is then the first budget characters of header plus body, and
\* otherwise header plus body are returned unchanged.
C35_TruncatedExactlyOverBudget ==
    sumPc = "done"
        => LET full == Untruncated(sumContent)
               budget == sumBudget * CharsPerToken
           IN  IF Len(full) > budget
               THEN sumResult = Take(full, budget) \o TruncationMarker
               ELSE sumResult = full /\ ~EndsWith(sumResult, TruncationMarker)

C35_Witness ==
    /\ sumPc = "done"
    /\ sumResult = Untruncated(sumContent)
    /\ Len(sumResult) = sumBudget * CharsPerToken


\* C36: request_approval returns only at a recognized response (approve,
\* reject or modify): a turn that reads any other input asks again and
\* returns nothing, and the turn that reads the first recognized response
\* returns; while the call has not returned it has no result.
C36_BlocksUntilRecognized ==
    [][ (chkPc = "prompt" /\ chkScript # << >>)
          => /\ IF Head(chkScript) \in { << >>, <<"o", "k">> }
                THEN /\ chkPc' = "prompt"
                     /\ chkAsked' = chkAsked + 1
                ELSE /\ chkPc' = "returned"
                     /\ chkResult' \in { "true", "false" }
             /\ chkPc' = "prompt" => chkResult' = "none" ]_vars

C36_Witness ==
    /\ chkPc = "returned"
    /\ chkAsked = 2
    /\ chkLast = <<"n">>
    /\ chkResult = "false"


\* C37: merge_worktree called for a branch that has no worktree directory
\* returns False (NotFound) without running a git command: main, every
\* worktree and every branch are as before the call.
C37_MergeOfMissingWorktree ==
    [][ \A c \in Tasks :
          (/\ wtCalls' = wtCalls + 1
           /\ wtOp'[c] # wtOp[c] \/ wtPc'[c] # wtPc[c] \/ wtRet'[c] # wtRet[c]
           /\ wtOp'[c].method = "merge_worktree"
           /\ wtOp'[c].branch \notin dirs)
              => /\ wtRet'[c] = "False"
                 /\ wtPc'[c] = "ready"
                 /\ wtGit' = wtGit
                 /\ UNCHANGED <<dirs, branches, merged>> ]_vars

C37_Witness ==
    \E c \in Tasks :
        /\ wtOp[c].method = "merge_worktree"
        /\ wtRet[c] = "False"
        /\ wtOp[c].branch \notin dirs
        /\ dirs # {}
        /\ merged = {}


\* C40: create-issues-from-migrations skips a record that already has a
\* github_issue (no issue is created, no record changes); it tries to create
\* the issue of a record that has none, and when that fails the record still
\* has no github_issue; a run that follows a run of the script in which no
\* creation failed creates no issue and changes no record.
C40_CreateIssuesIdempotent ==
    [][ /\ \A p \in Projects :
             (migPc = "create" /\ p \in migTodo /\ p \notin migTodo')
               => IF migFiles[p].github_issue # <<"null">>
                  THEN UNCHANGED <<migFiles, migIssues, migAttempts>>
                  ELSE /\ migAttempts' = migAttempts + 1
                       /\ migIssues' = migIssues => migFiles' = migFiles
                       /\ migIssues' # migIssues
                            => /\ migIssues' = Append(migIssues, p)
                               /\ migFiles'[p].github_issue # <<"null">>
                               /\ \A q \in DOMAIN migFiles \ {p} :
                                    migFiles'[q] = migFiles[q]
        /\ (migPc = "create" /\ migPrev.script = "create" /\ migPrev.ran
                             /\ migPrev.failed = 0)
             => UNCHANGED <<migFiles, migIssues, migAttempts>> ]_vars

C40_Witness ==
    /\ migPc = "idle"
    /\ migPrev.script = "create"
    /\ migPrev.skipped = NumProjects
    /\ Len(migIssues) = NumProjects
    /\ migAttempts > Len(migIssues)


\* C38: in the Research and Plan phases the agent runs only after the
\* phase's create_issue call; the issue is commented and closed only after
\* the checkpoint of the phase approved, the comment first; once the
\* checkpoint has rejected, the phase makes no further call (the issue is
\* never commented or closed), and an issue that was created is still open.
C38_IssueLifecycle ==
    \A t \in Tasks :
        /\ \A i \in 1..Len(trace[t]) :
             LET e == trace[t][i] IN
             e[2] \in {1, 2}
               => CASE e[1] = "exec"
                         -> (i > 1 /\ trace[t][i - 1] = Ev("issue_create", e[2]))
                    [] e[1] = "issue_comment"
                         -> (i > 1 /\ trace[t][i - 1] = Ev("approve", e[2]))
                    [] e[1] = "issue_close"
                         -> (i > 1 /\ trace[t][i - 1] = Ev("issue_comment", e[2]))
                    [] e[1] = "reject"
                         -> /\ issue[t][e[2]] \in {"open", "failed"}
                            /\ \A j \in (i + 1)..Len(trace[t]) :
                                 trace[t][j][2] # e[2]
                    [] OTHER -> TRUE
        /\ \A p \in {1, 2} :
             issue[t][p] = "closed" => decision[t][p] = "approve"

C38_Witness ==
    \E t \in Tasks :
        /\ issue[t][1] = "closed"
        /\ decision[t][2] = "reject"
        /\ issue[t][2] = "open"
        /\ pc[t] = "exit1"

\* C39: once a run has been rejected at the Implement or Validate
\* checkpoint, its worktree stays as created, and create_worktree of any
\* later run with the same task description finds it: the call returns
\* None at the existence check and changes nothing in the repository.
C39_RejectedWorkspaceBlocksNewRun ==
    [][ \A t \in Tasks :
          (pc[t] = "exit1"
             /\ (decision[t][3] = "reject" \/ decision[t][4] = "reject"))
            => /\ Branch(t) \in dirs
               /\ wsState[t] = "Created"
               /\ \A u \in Tasks \ {t} :
                    (desc[u] = desc[t] /\ pc[u] = "p3_create"
                                       /\ pc'[u] # "p3_create")
                       => /\ createRes'[u] = "exists"
                          /\ UNCHANGED <<dirs, branches, merged>> ]_vars

C39_Witness ==
    \E t \in Tasks, u \in Tasks :
        /\ t # u
        /\ desc[t] = desc[u]
        /\ pc[t] = "exit1"
        /\ decision[t][4] = "reject"
        /\ createRes[u] = "exists"
        /\ Count(u, "create_worktree", 3) = 1
        /\ Count(t, "reject", 4) = 1
        /\ Count(u, "start", 3) = 1
        /\ ~Has(u, "git_worktree_add", 3)

====
